---- MODULE Spec2Model ----
(***************************************************************************)
(* TuneSmith: a Flask backend (src/api/server.py) that keeps per-cookie    *)
(* sessions and a global table of SpotifyAgent objects, and the agent      *)
(* layer (src/agent/agent.py): SpotifyClient, a wrapper around the Spotify *)
(* Web API, and SpotifyAgent.process_request, which post-processes the     *)
(* intermediate steps of an external agent executor.                       *)
(*                                                                         *)
(* Python values are modelled as follows.  A dict is a function whose      *)
(* domain is the set of keys present.  None is NoneV; a missing optional   *)
(* value is Absent.  Text that the code inspects character by character    *)
(* (lower(), substring tests) is a tuple of one-character strings.  An     *)
(* exception is a record; an operation that can raise returns a record     *)
(* with a raised flag, and a try/except is the test of that flag.          *)
(* Every outbound call (Spotify API, OAuth manager, token endpoint,        *)
(* executor) is appended to a call log so that "issues no call" and        *)
(* "before" are statements about the log.                                  *)
(***************************************************************************)
EXTENDS Integers, Sequences, FiniteSets, TLC

VARIABLES session, agent_instances, next_id, logged_out, last, client, temperature, out

vars == <<session, agent_instances, next_id, logged_out, last, client, temperature, out>>
serverVars == <<session, agent_instances, next_id, logged_out, last>>
agentVars == <<client, temperature, out>>

-----------------------------------------------------------------------------
(* Bounds of the model *)

MaxAgentIds == 2
MaxDevices == 2
MaxSteps == 2
MaxPages == 3
MaxTracks == 201

-----------------------------------------------------------------------------
(* Python values *)

NoneV == "<None>"
Absent == "<absent>"

\* truth value of a str-or-None: None and '' are falsy
Truthy(v) == v # NoneV /\ v # Absent /\ v # ""

EmptyDict == [k \in {} |-> NoneV]
Has(d, k) == k \in DOMAIN d
Get(d, k, default) == IF k \in DOMAIN d THEN d[k] ELSE default
Put(d, k, v) == (k :> v) @@ d

Min(a, b) == IF a < b THEN a ELSE b

-----------------------------------------------------------------------------
(* Text: str.lower() and the substring operator `in` *)

LowerChar(c) ==
    CASE c = "A" -> "a" [] c = "C" -> "c" [] c = "E" -> "e" [] c = "K" -> "k"
      [] c = "L" -> "l" [] c = "M" -> "m" [] c = "N" -> "n" [] c = "O" -> "o"
      [] c = "P" -> "p" [] c = "R" -> "r" [] c = "S" -> "s" [] c = "T" -> "t"
      [] c = "U" -> "u" [] c = "X" -> "x" [] c = "Y" -> "y"
      [] OTHER -> c

lower(s) == [i \in DOMAIN s |-> LowerChar(s[i])]

\* w in s
Contains(s, w) ==
    \E i \in 0..(Len(s) - Len(w)) : \A j \in 1..Len(w) : s[i + j] = w[j]

\* any(word in s for word in words)
AnyIn(words, s) == \E w \in words : Contains(s, w)

-----------------------------------------------------------------------------
(* Exceptions raised by the outbound calls.  SpotifyException carries      *)
(* http_status and msg (spotipy.exceptions); any other exception carries   *)
(* its str() in msg.                                                       *)

MsgNoDevice == "Player command failed: No active device found"
MsgPremium == "Player command failed: premium required"
MsgRestricted == "Restriction violated: restricted device"
MsgOther == "invalid id"

SpotifyExc(status, msg) ==
    [t |-> "SpotifyException", http_status |-> status, msg |-> msg, reason |-> NoneV]
OtherExc(text) == [t |-> "Exception", http_status |-> 0, msg |-> text, reason |-> NoneV]

Exceptions ==
    {SpotifyExc(404, MsgNoDevice), SpotifyExc(403, MsgPremium),
     SpotifyExc(403, MsgRestricted), SpotifyExc(404, MsgOther),
     [SpotifyExc(403, MsgPremium) EXCEPT !.reason = "PREMIUM_REQUIRED"],
     SpotifyExc(500, ""), SpotifyExc(502, NoneV),
     OtherExc("Connection timed out"), OtherExc("")}

\* "needle" in msg, for the two needles control_playback looks for
HasNoActiveDevice(msg) == msg = MsgNoDevice
HasRestricted(msg) == msg = MsgRestricted
HasPremium(msg) == msg = MsgPremium

\* str(e) of an exception that is not a SpotifyException
str(e) == e.msg

\* f"Spotify API error: {e.msg}" if hasattr(e, 'msg') and e.msg
\*   else f"Spotify API error code: {e.http_status}"
SpotifyErrorMessage(e) ==
    IF Truthy(e.msg) THEN "Spotify API error: " \o e.msg
    ELSE "Spotify API error code: " \o ToString(e.http_status)


-----------------------------------------------------------------------------
(* The environment of one operation: what the outside world answers.       *)
(*   reauth       outcome of sp_oauth.get_access_token(check_cache=True)   *)
(*   failAt, exc  the failAt-th Spotify API call of the operation raises   *)
(*                exc (0: no call raises)                                  *)
(*   devices      the device list sp.devices() answers                     *)
(*   pages        the pages sp.playlist_items answers, by page number      *)
(*   details      the playlist object sp.playlist() answers                *)
(*   items        the items sp.search / the 5-item preview answers         *)

Outcomes == {"token", "none", "raise"}

Device(id, active) == [id |-> id, is_active |-> active]
DeviceIds == {NoneV, "d1", "d2"}
AllDevices == {Device(i, a) : i \in DeviceIds, a \in BOOLEAN}
DeviceLists == UNION {[1..n -> AllDevices] : n \in 0..MaxDevices}

\* an item of a playlist page: its track is null, has no uri, or has one
Item(kind, id) == [kind |-> kind, id |-> id]
ItemLists == {<<>>, <<Item("track", 1)>>, <<Item("null", 0), Item("track", 2)>>,
              <<Item("track", 2), Item("nouri", 1), Item("track", 1)>>}
SearchItemLists == {<<>>, <<Item("track", 1)>>, <<Item("nouri", 1), Item("track", 2)>>}

Page(valid, items, next) == [valid |-> valid, items |-> items, next |-> next]
InvalidPage == Page(FALSE, <<>>, FALSE)
AllPages == {InvalidPage} \cup {Page(TRUE, it, nx) : it \in ItemLists, nx \in BOOLEAN}

\* external_urls of a playlist object: key missing, null, or an object
\* whose "spotify" member is missing, empty or a URL
Urls(t, spotify) == [t |-> t, spotify |-> spotify]
UrlsAbsent == Urls("absent", Absent)
UrlsNone == Urls("none", Absent)
UrlVals == {UrlsAbsent, UrlsNone, Urls("dict", Absent), Urls("dict", ""),
            Urls("dict", "https://open.spotify.com/playlist/p1"),
            Urls("dict", "https://open.spotify.com/playlist/p2")}

Details(urls, images, total) == [external_urls |-> urls, images |-> images, total |-> total]

EnvDefault ==
    [reauth |-> "token", failAt |-> 0, exc |-> OtherExc(""), devices |-> <<>>,
     pages |-> <<>>, details |-> Details(UrlsAbsent, "absent", 0), items |-> <<>>]

-----------------------------------------------------------------------------
(* The log of outbound calls *)

Call(api) ==
    [api |-> api, device_id |-> Absent, context_uri |-> Absent, items |-> <<>>,
     offset |-> 0, limit |-> 0, public |-> Absent]

Apis(calls) == [i \in DOMAIN calls |-> calls[i].api]

OAuthApis == {"SpotifyOAuth", "get_cached_token", "get_access_token"}
\* the calls that read or change Spotify data or playback
IsDataCall(c) == c.api \notin OAuthApis

\* the calls of plan that are issued when the failAt-th one raises
RunCalls(plan, env) ==
    IF env.failAt \in 1..Len(plan)
    THEN [calls |-> SubSeq(plan, 1, env.failAt), failed |-> TRUE]
    ELSE [calls |-> plan, failed |-> FALSE]

\* what an operation hands back: the client afterwards, the calls it issued,
\* its return value, and whether an exception left it instead
Result(c, calls, ret) == [client |-> c, calls |-> calls, ret |-> ret, raised |-> FALSE]
Raise(c, calls, e) == [client |-> c, calls |-> calls, ret |-> [exception |-> e.msg], raised |-> TRUE]

-----------------------------------------------------------------------------
(* SpotifyClient (src/agent/agent.py).  A client is [sp, sp_oauth]: whether *)
(* it holds a Spotify handle and whether it holds an OAuth manager.         *)

Client(sp, oauth) == [sp |-> sp, sp_oauth |-> oauth]

\* credentials["token"]: a JSON text
JsonInvalid == [json |-> "invalid", value |-> EmptyDict]
JsonEmpty == [json |-> "empty", value |-> EmptyDict]
JsonNumber == [json |-> "number", value |-> EmptyDict]
json_dumps(d) == [json |-> "object", value |-> d]
json_loads(text) ==
    IF text.json \in {"object", "number"}
    THEN [raised |-> FALSE, isDict |-> text.json = "object", value |-> text.value]
    ELSE [raised |-> TRUE, isDict |-> FALSE, value |-> EmptyDict]

CredentialKeys == {"client_id", "client_secret", "redirect_uri"}

\* SpotifyClient.__init__ and _authenticate.  aenv.oauth: does the
\* SpotifyOAuth constructor raise; aenv.cached: outcome of get_cached_token
authenticate(credentials, aenv) ==
    IF ~(CredentialKeys \subseteq DOMAIN credentials) \/ aenv.oauth = "raise"
    THEN [client |-> Client(FALSE, FALSE), calls |-> <<Call("SpotifyOAuth")>>]
    ELSE LET calls == <<Call("SpotifyOAuth"), Call("get_cached_token")>> IN
         CASE aenv.cached = "raise" -> [client |-> Client(FALSE, TRUE), calls |-> calls]
           [] aenv.cached = "token" -> [client |-> Client(TRUE, TRUE), calls |-> calls]
           [] OTHER ->
                IF Has(credentials, "token") /\ credentials["token"].json # "empty"
                THEN LET info == json_loads(credentials["token"]) IN
                     \* 'access_token' in a number raises TypeError, caught
                     IF ~info.raised /\ info.isDict /\ Has(info.value, "access_token")
                     THEN [client |-> Client(TRUE, TRUE), calls |-> calls]
                     ELSE [client |-> Client(FALSE, TRUE), calls |-> calls]
                ELSE [client |-> Client(FALSE, TRUE), calls |-> calls]

\* as ensure_client, answering True without looking at the handle
ensure_client_unchecked(c, env) == [ok |-> TRUE, client |-> c, calls |-> <<>>]

ensure_client(c, env) ==
    IF ~c.sp
    THEN IF c.sp_oauth
         THEN IF env.reauth = "token"
              THEN [ok |-> TRUE, client |-> [c EXCEPT !.sp = TRUE],
                    calls |-> <<Call("get_access_token")>>]
              ELSE [ok |-> FALSE, client |-> c, calls |-> <<Call("get_access_token")>>]
         ELSE [ok |-> FALSE, client |-> c, calls |-> <<>>]
    ELSE [ok |-> TRUE, client |-> c, calls |-> <<>>]

NotAuthenticated == [error |-> "Not authenticated with Spotify"]

\* as std_except, without the except Exception clause
std_except_spotify_only(e) ==
    IF e.t = "SpotifyException"
    THEN [caught |-> TRUE, ret |-> [error |-> SpotifyErrorMessage(e)]]
    ELSE [caught |-> FALSE, ret |-> EmptyDict]

\* except SpotifyException / except Exception of search_tracks,
\* create_playlist, get_all_playlist_items and get_current_user_profile
std_except(e) ==
    IF e.t = "SpotifyException"
    THEN [caught |-> TRUE, ret |-> [error |-> SpotifyErrorMessage(e)]]
    ELSE [caught |-> TRUE, ret |-> [error |-> str(e)]]

remove_except(e) ==
    IF e.t = "SpotifyException"
    THEN [caught |-> TRUE,
          ret |-> [error |-> IF Truthy(e.reason)
                             THEN SpotifyErrorMessage(e) \o " (Reason: " \o e.reason \o ")"
                             ELSE SpotifyErrorMessage(e),
                   success |-> FALSE]]
    ELSE [caught |-> TRUE, ret |-> [error |-> str(e), success |-> FALSE]]

playback_except(e) ==
    IF e.t = "SpotifyException"
    THEN LET msg == IF Truthy(e.msg) THEN e.msg ELSE "" IN
         [caught |-> TRUE,
          ret |-> IF e.http_status = 404 /\ HasNoActiveDevice(msg)
                  THEN [error |-> "No active Spotify device found."]
                  ELSE IF e.http_status = 403 /\ (HasRestricted(msg) \/ HasPremium(msg))
                  THEN [error |-> "Playback control failed. Requires Premium or restricted."]
                  ELSE IF msg # "" THEN [error |-> "Spotify API error: " \o msg]
                  ELSE [error |-> "Spotify API error code: " \o ToString(e.http_status)]]
    ELSE [caught |-> TRUE, ret |-> [error |-> str(e)]]

\* the end of a try block: r is what RunCalls issued, h the except clauses
\* applied to the exception, okRet the value returned when nothing raised
Finish(e, r, h, okRet, env) ==
    IF r.failed
    THEN IF h.caught THEN Result(e.client, e.calls \o r.calls, h.ret)
         ELSE Raise(e.client, e.calls \o r.calls, env.exc)
    ELSE Result(e.client, e.calls \o r.calls, okRet)

Uri(id) == "spotify:track:" \o ToString(id)
Track(item) == [uri |-> IF item.kind = "track" THEN Uri(item.id) ELSE NoneV, id |-> item.id]

\* the tracks kept from a list of playlist items: if track and track.get('uri')
RECURSIVE KeptTracks(_)
KeptTracks(items) ==
    IF items = <<>> THEN <<>>
    ELSE (IF Head(items).kind = "track" THEN <<Track(Head(items))>> ELSE <<>>)
         \o KeptTracks(Tail(items))

search_tracks(c, query, limit, env) ==
    LET e == ensure_client(c, env) IN
    IF ~e.ok THEN Result(e.client, e.calls, NotAuthenticated)
    ELSE LET r == RunCalls(<<[Call("search") EXCEPT !.limit = limit]>>, env) IN
         Finish(e, r, std_except(env.exc),
                [tracks |-> [i \in DOMAIN env.items |-> Track(env.items[i])]], env)

BatchSize == 100

\* for i in range(0, len(track_uris), 100): chunk = track_uris[i:i+100]
RECURSIVE Chunks(_, _)
Chunks(track_uris, i) ==
    IF i >= Len(track_uris) THEN <<>>
    ELSE <<SubSeq(track_uris, i + 1, Min(i + BatchSize, Len(track_uris)))>>
         \o Chunks(track_uris, i + BatchSize)

\* all the track URIs in one playlist_add_items call
AddItemsCalls_unbatched(track_uris) ==
    IF track_uris # <<>> THEN <<[Call("playlist_add_items") EXCEPT !.items = track_uris]>>
    ELSE <<>>

AddItemsCalls(track_uris) ==
    LET ch == IF track_uris # <<>> THEN Chunks(track_uris, 0) ELSE <<>> IN
    [k \in DOMAIN ch |-> [Call("playlist_add_items") EXCEPT !.items = ch[k]]]

create_playlist(c, name, track_uris, description, env) ==
    LET e == ensure_client(c, env) IN
    IF ~e.ok THEN Result(e.client, e.calls, NotAuthenticated)
    ELSE LET plan == <<Call("current_user"),
                       [Call("user_playlist_create") EXCEPT !.public = "False"]>>
                     \o AddItemsCalls(track_uris)
                     \o <<Call("playlist"), [Call("playlist_items") EXCEPT !.limit = 5]>>
             d == env.details
             result ==
                [name |-> name, description |-> description,
                 external_urls |-> IF d.external_urls.t = "absent" THEN UrlsNone
                                   ELSE d.external_urls,
                 id |-> "pl1", uri |-> "spotify:playlist:pl1",
                 tracks |-> [total |-> d.total],
                 cover_image_url |-> IF d.images = "url" THEN "https://i.scdn.co/image/1"
                                     ELSE NoneV,
                 tracks_preview |-> KeptTracks(env.items)]
         IN Finish(e, RunCalls(plan, env), std_except(env.exc), result, env)

\* the while True loop of get_all_playlist_items
RECURSIVE page_loop(_, _, _, _)
page_loop(env, offset, all_tracks, calls) ==
    LET call == [Call("playlist_items") EXCEPT !.offset = offset, !.limit = BatchSize]
        n == (offset \div BatchSize) + 1
        page == IF n <= Len(env.pages) THEN env.pages[n] ELSE InvalidPage
        issued == Append(calls, call)
    IN IF env.failAt = Len(issued)
       THEN [failed |-> TRUE, calls |-> issued, tracks |-> all_tracks]
       ELSE IF page.valid
            THEN LET t == all_tracks \o KeptTracks(page.items) IN
                 IF page.next THEN page_loop(env, offset + BatchSize, t, issued)
                 ELSE [failed |-> FALSE, calls |-> issued, tracks |-> t]
            ELSE [failed |-> FALSE, calls |-> issued, tracks |-> all_tracks]

\* a fetch that stops after the first page whatever its 'next' link says
get_all_playlist_items_first_page_only(c, playlist_id, env) ==
    LET e == ensure_client(c, env)
        single == [env EXCEPT !.pages = [i \in DOMAIN env.pages |->
                                            [env.pages[i] EXCEPT !.next = FALSE]]]
    IN
    IF ~e.ok THEN Result(e.client, e.calls, NotAuthenticated)
    ELSE LET r == page_loop(single, 0, <<>>, <<>>) IN
         Finish(e, r, std_except(env.exc), [tracks |-> r.tracks], env)

get_all_playlist_items(c, playlist_id, env) ==
    LET e == ensure_client(c, env) IN
    IF ~e.ok THEN Result(e.client, e.calls, NotAuthenticated)
    ELSE LET r == page_loop(env, 0, <<>>, <<>>) IN
         Finish(e, r, std_except(env.exc), [tracks |-> r.tracks], env)

remove_track_from_playlist(c, playlist_id, track_uri, env) ==
    LET e == ensure_client(c, env) IN
    IF ~e.ok THEN Result(e.client, e.calls, NotAuthenticated)
    ELSE LET plan == <<[Call("playlist_remove_all_occurrences_of_items")
                           EXCEPT !.items = <<track_uri>>],
                       Call("playlist")>>
         IN Finish(e, RunCalls(plan, env), remove_except(env.exc),
                   [success |-> TRUE, snapshot_id |-> "snap1",
                    new_track_count |-> env.details.total], env)

get_current_user_profile(c, env) ==
    LET e == ensure_client(c, env) IN
    IF ~e.ok THEN Result(e.client, e.calls, NotAuthenticated)
    ELSE Finish(e, RunCalls(<<Call("current_user")>>, env), std_except(env.exc),
                [id |-> "user1", display_name |-> "User One"], env)

\* the text of a tuple of characters
RECURSIVE Text(_)
Text(chars) == IF chars = <<>> THEN "" ELSE Head(chars) \o Text(Tail(chars))

W_play == <<"p", "l", "a", "y">>
W_pause == <<"p", "a", "u", "s", "e">>
W_next == <<"n", "e", "x", "t">>
W_previous == <<"p", "r", "e", "v", "i", "o", "u", "s">>

\* next((d for d in devices['devices'] if d['is_active']), None): its index, or 0
FirstActive(devices) ==
    LET active == {i \in DOMAIN devices : devices[i].is_active} IN
    IF active = {} THEN 0 ELSE CHOOSE i \in active : \A j \in active : i <= j

control_playback(c, action, context_uri, env) ==
    LET e == ensure_client(c, env) IN
    IF ~e.ok THEN Result(e.client, e.calls, NotAuthenticated)
    ELSE LET result == [success |-> TRUE, action |-> Text(action)]
             act == lower(action)
             devices == env.devices
             fa == FirstActive(devices)
             active_id == IF fa # 0 THEN devices[fa].id ELSE NoneV
             transfer == ~Truthy(active_id) /\ devices # <<>>
             device_id == IF Truthy(active_id) THEN active_id
                          ELSE IF devices # <<>> THEN devices[1].id ELSE NoneV
             no_device == ~Truthy(active_id) /\ devices = <<>>
             start == [Call("start_playback") EXCEPT
                          !.device_id = device_id,
                          !.context_uri = IF Truthy(context_uri) THEN context_uri ELSE Absent]
             plan == CASE act = W_play ->
                            <<Call("devices")>>
                            \o (IF transfer
                                THEN <<[Call("transfer_playback") EXCEPT !.device_id = device_id]>>
                                ELSE <<>>)
                            \o (IF no_device THEN <<>> ELSE <<start>>)
                       [] act = W_pause -> <<Call("pause_playback")>>
                       [] act = W_next -> <<Call("next_track")>>
                       [] act = W_previous -> <<Call("previous_track")>>
                       [] OTHER -> <<>>
             okRet == CASE act = W_play ->
                             IF no_device THEN [error |-> "No available Spotify devices found."]
                             ELSE result @@ [status |-> "Playback started/resumed"]
                        [] act = W_pause -> result @@ [status |-> "Playback paused"]
                        [] act = W_next -> result @@ [status |-> "Skipped to next track"]
                        [] act = W_previous -> result @@ [status |-> "Skipped to previous track"]
                        [] OTHER -> [error |-> "Unknown playback action: " \o Text(act)]
         IN Finish(e, RunCalls(plan, env), playback_except(env.exc), okRet, env)

-----------------------------------------------------------------------------
(* SpotifyAgent (src/agent/agent.py).  An agent is its SpotifyClient and   *)
(* the temperature of its LLM, in tenths.                                  *)

T_creative == 9
T_analytical == 3
T_recommendation == 7
T_default == 7

\* the parameters SpotifyAgent.__init__ declares besides self
InitParams == {"openai_api_key", "spotify_credentials"}

\* SpotifyAgent(**kwargs): binding an undeclared keyword raises TypeError
SpotifyAgent_init(kwargs, credentials, aenv) ==
    IF kwargs # InitParams
    THEN [raised |-> TRUE, agent |-> [client |-> Client(FALSE, FALSE), temperature |-> T_default],
          calls |-> <<>>]
    ELSE LET a == authenticate(credentials, aenv) IN
         [raised |-> FALSE, agent |-> [client |-> a.client, temperature |-> T_default],
          calls |-> a.calls]

CreativeWords ==
    {<<"c","r","e","a","t","e">>, <<"m","a","k","e">>, <<"b","u","i","l","d">>,
     <<"n","e","w"," ","p","l","a","y","l","i","s","t">>, <<"m","o","o","d">>,
     <<"f","e","e","l">>}
AnalyticalWords ==
    {<<"a","n","a","l","y","z","e">>, <<"s","t","a","t","i","s","t","i","c","s">>,
     <<"s","t","a","t","s">>, <<"c","o","m","p","a","r","e">>, <<"t","o","p">>}
RecommendationWords ==
    {<<"r","e","c","o","m","m","e","n","d">>, <<"s","u","g","g","e","s","t">>,
     <<"s","i","m","i","l","a","r"," ","t","o">>, <<"l","i","k","e">>}

\* _get_temperature_for_task, on the characters of user_input
get_temperature_for_task(chars) ==
    LET input_lower == lower(chars) IN
    IF AnyIn(CreativeWords, input_lower) THEN T_creative
    ELSE IF AnyIn(AnalyticalWords, input_lower) THEN T_analytical
    ELSE IF AnyIn(RecommendationWords, input_lower) THEN T_recommendation
    ELSE T_default

\* an observation of an intermediate step: a dict or some other value
Obs(kind, error, urls, id) ==
    [kind |-> kind, error |-> error, external_urls |-> urls, id |-> id,
     name |-> "Playlist " \o id, description |-> "About " \o id, total |-> 12,
     cover_image_url |-> NoneV, tracks_preview |-> <<>>]
Step(tool, obs) == [tool |-> tool, obs |-> obs]

NoDetails ==
    [name |-> NoneV, description |-> NoneV, url |-> NoneV, track_count |-> 0,
     cover_image_url |-> NoneV, tracks_preview |-> <<>>, id |-> NoneV]

ScanStart ==
    [extracted |-> FALSE, details |-> NoDetails, last_error |-> NoneV,
     explanation |-> <<>>, raised |-> FALSE, exc |-> ""]

\* the body of "for step in intermediate_steps" for one step
scan_step(acc, step) ==
    LET observation == step.obs
        isDict == observation.kind = "dict"
        hasError == isDict /\ Truthy(observation.error)
        obs_text == IF isDict
                    THEN IF hasError THEN "Observation: Error - " \o observation.error
                         ELSE "Observation: dict " \o observation.id
                    ELSE "Observation: " \o observation.id
        acc1 == [acc EXCEPT
                   !.last_error = IF hasError THEN observation.error ELSE @,
                   !.explanation = @ \o <<"Action: Called tool '" \o step.tool \o "'", obs_text>>]
    IN IF step.tool = "spotify_create_playlist" /\ isDict /\ ~hasError
       THEN \* observation.get("external_urls", {}).get("spotify")
            IF observation.external_urls.t = "none"
            THEN [acc1 EXCEPT !.raised = TRUE,
                              !.exc = "'NoneType' object has no attribute 'get'"]
            ELSE LET playlist_url == observation.external_urls.spotify IN
                 IF Truthy(playlist_url)
                 THEN [acc1 EXCEPT
                         !.extracted = TRUE,
                         !.details = [name |-> observation.name,
                                      description |-> observation.description,
                                      url |-> playlist_url,
                                      track_count |-> observation.total,
                                      cover_image_url |-> observation.cover_image_url,
                                      tracks_preview |-> observation.tracks_preview,
                                      id |-> observation.id]]
                 ELSE [acc1 EXCEPT
                         !.last_error = IF Truthy(@) THEN @
                                        ELSE "Playlist created, but failed to get URL."]
       ELSE acc1

RECURSIVE scan_steps(_, _)
scan_steps(acc, steps) ==
    IF steps = <<>> \/ acc.raised THEN acc
    ELSE scan_steps(scan_step(acc, Head(steps)), Tail(steps))

\* the try block of SpotifyAgent.process_request.  xenv.invoke: does
\* agent_executor.invoke raise; xenv.response: the dict it answers
process_request_try(agent, user_input, xenv) ==
    IF user_input.t # "str"
    THEN \* user_input.lower() raises AttributeError
         [agent |-> agent, calls |-> <<>>, raised |-> TRUE,
          exc |-> "object has no attribute 'lower'", ret |-> EmptyDict]
    ELSE LET a1 == [agent EXCEPT !.temperature = get_temperature_for_task(user_input.chars)]
             calls == <<Call("agent_executor.invoke")>>
         IN IF xenv.invoke = "raise"
            THEN [agent |-> a1, calls |-> calls, raised |-> TRUE,
                  exc |-> "executor failed", ret |-> EmptyDict]
            ELSE LET response == xenv.response
                     final_output_text == Get(response, "output", "Task completed.")
                     intermediate_steps == Get(response, "intermediate_steps", <<>>)
                     acc == scan_steps(ScanStart, intermediate_steps)
                 IN IF acc.raised
                    THEN [agent |-> a1, calls |-> calls, raised |-> TRUE, exc |-> acc.exc,
                          ret |-> EmptyDict]
                    ELSE [agent |-> a1, calls |-> calls, raised |-> FALSE, exc |-> "",
                          ret |-> IF acc.extracted
                                  THEN [success |-> TRUE, type |-> "playlist",
                                        playlist |-> acc.details,
                                        agent_steps_explanation |-> acc.explanation,
                                        raw_output |-> final_output_text]
                                  ELSE IF Truthy(acc.last_error)
                                  THEN [success |-> FALSE, error |-> acc.last_error,
                                        agent_steps_explanation |-> acc.explanation]
                                  ELSE [success |-> TRUE, type |-> "generic",
                                        message |-> final_output_text,
                                        agent_steps_explanation |-> acc.explanation]]

\* as process_request_except, without the except clause
process_request_no_except(t) == t

\* except Exception as e: of SpotifyAgent.process_request
process_request_except(t) ==
    IF t.raised
    THEN [t EXCEPT !.raised = FALSE,
                   !.ret = [success |-> FALSE, error |-> "Unexpected agent error: " \o t.exc]]
    ELSE t

SpotifyAgent_process_request(agent, user_input, xenv) ==
    IF ~agent.client.sp
    THEN [agent |-> agent, calls |-> <<>>, raised |-> FALSE, exc |-> "",
          ret |-> [success |-> FALSE, error |-> "Spotify client not authenticated."]]
    ELSE process_request_except(process_request_try(agent, user_input, xenv))

-----------------------------------------------------------------------------
(* The agent layer as a state machine: one SpotifyAgent whose tools and    *)
(* process_request are called in any order.  out records the last call:    *)
(* the agent before it, its arguments, the environment, the outbound calls *)
(* it issued and what it returned.                                         *)

Credentials(token) ==
    [client_id |-> "id", client_secret |-> "secret", redirect_uri |-> "uri", token |-> token]
CredentialSet ==
    {Credentials(t) : t \in {JsonInvalid, JsonEmpty, JsonNumber,
                             json_dumps([refresh_token |-> "rt1"]),
                             json_dumps([access_token |-> "at1", refresh_token |-> "rt1"])}}
    \cup {[client_id |-> "id", client_secret |-> "secret", redirect_uri |-> "uri"],
          [client_id |-> "id", token |-> json_dumps([access_token |-> "at1"])]}
AuthEnvs == {[oauth |-> o, cached |-> c] : o \in {"ok", "raise"}, c \in Outcomes}

ExceptionSample == {SpotifyExc(404, MsgOther), SpotifyExc(500, ""), OtherExc("Connection timed out")}

\* no call raises, or the i-th of at most k calls raises x
Failures(k, excs) ==
    {[failAt |-> 0, exc |-> OtherExc("")]} \cup {[failAt |-> i, exc |-> x] : i \in 1..k, x \in excs}

\* get_access_token is only ever called by a client without a handle
Reauths(c) == IF c.sp THEN {"token"} ELSE Outcomes

Env(reauth, f) == [EnvDefault EXCEPT !.reauth = reauth, !.failAt = f.failAt, !.exc = f.exc]

ArgsNone == [action |-> <<>>, context_uri |-> NoneV, track_uris |-> <<>>]

Out(op, args, env, r) ==
    [op |-> op, pre |-> client, preTemperature |-> temperature, args |-> args, env |-> env,
     calls |-> r.calls, ret |-> r.ret, raised |-> r.raised]

OutInit ==
    [op |-> "none", pre |-> Client(FALSE, FALSE), preTemperature |-> T_default,
     args |-> ArgsNone, env |-> EnvDefault, calls |-> <<>>, ret |-> EmptyDict, raised |-> FALSE]

\* the caller is between two calls
Idle == out.op = "none"

Construct ==
    /\ Idle
    /\ \E cr \in CredentialSet, ae \in AuthEnvs :
        LET r == SpotifyAgent_init(InitParams, cr, ae) IN
        /\ client' = r.agent.client
        /\ temperature' = r.agent.temperature
        /\ out' = [op |-> "SpotifyAgent", pre |-> client, preTemperature |-> temperature,
                   args |-> cr, env |-> ae, calls |-> r.calls, ret |-> EmptyDict,
                   raised |-> r.raised]
        /\ UNCHANGED serverVars

\* a tool call: r is the result of the SpotifyClient operation
Tool(op, args, env, r) ==
    /\ client' = r.client
    /\ out' = Out(op, args, env, r)
    /\ UNCHANGED <<temperature, serverVars>>

SearchTracks ==
    /\ Idle
    /\ \E ra \in Reauths(client), f \in Failures(1, Exceptions), it \in SearchItemLists :
        LET env == [Env(ra, f) EXCEPT !.items = it] IN
        Tool("search_tracks", ArgsNone, env, search_tracks(client, "q", 10, env))

TrackCounts == {0, 1, BatchSize - 1, BatchSize, BatchSize + 1, 2 * BatchSize, MaxTracks}
DetailsSet ==
    {Details(u, i, 12) : u \in {UrlsAbsent, Urls("dict", "https://open.spotify.com/playlist/p1")},
                         i \in {"absent", "empty", "url"}}

CreatePlaylist ==
    /\ Idle
    /\ \E ra \in Reauths(client), n \in TrackCounts, d \in DetailsSet, it \in ItemLists :
      \E f \in Failures(4 + ((n + BatchSize - 1) \div BatchSize), ExceptionSample) :
        LET env == [Env(ra, f) EXCEPT !.details = d, !.items = it]
            args == [ArgsNone EXCEPT !.track_uris = [i \in 1..n |-> i]]
        IN Tool("create_playlist", args, env,
                create_playlist(client, "name", args.track_uris, "description", env))

PageLists == UNION {[1..n -> AllPages] : n \in 0..MaxPages}

GetAllPlaylistItems ==
    /\ Idle
    /\ \E ra \in Reauths(client), pg \in PageLists :
      \E f \in Failures(Len(pg) + 1, ExceptionSample) :
        LET env == [Env(ra, f) EXCEPT !.pages = pg] IN
        Tool("get_all_playlist_items", ArgsNone, env, get_all_playlist_items(client, "pl1", env))

RemoveTrackFromPlaylist ==
    /\ Idle
    /\ \E ra \in Reauths(client), f \in Failures(2, Exceptions) :
        LET env == [Env(ra, f) EXCEPT !.details = Details(UrlsAbsent, "absent", 11)] IN
        Tool("remove_track_from_playlist", ArgsNone, env,
             remove_track_from_playlist(client, "pl1", Uri(1), env))

PlaybackActions ==
    {<<"p","l","a","y">>, <<"P","L","A","Y">>, <<"P","l","a","y">>, <<"P","a","u","s","e">>,
     <<"n","e","x","t">>, <<"p","r","e","v","i","o","u","s">>, <<"s","t","o","p">>}
ContextUris == {NoneV, "", "spotify:playlist:pl1"}

ControlPlayback ==
    /\ Idle
    /\ \E ra \in Reauths(client), a \in PlaybackActions, cu \in ContextUris, dv \in DeviceLists,
       f \in Failures(3, Exceptions) :
        LET env == [Env(ra, f) EXCEPT !.devices = dv]
            args == [ArgsNone EXCEPT !.action = a, !.context_uri = cu]
        IN Tool("control_playback", args, env, control_playback(client, a, cu, env))

GetCurrentUserProfile ==
    /\ Idle
    /\ \E ra \in Reauths(client), f \in Failures(1, Exceptions) :
        Tool("get_current_user_profile", ArgsNone, Env(ra, f),
             get_current_user_profile(client, Env(ra, f)))

\* what the request text can be: a str, or another JSON value
Str(chars) == [t |-> "str", chars |-> chars]
UserInputs ==
    {Str(<<"M","a","k","e"," ","a"," ","m","i","x">>), Str(<<"T","O","P"," ","s","o","n","g","s">>),
     Str(<<"m","u","s","i","c"," ","l","i","k","e"," ","A","B","B","A">>),
     Str(<<"p","l","a","y">>), Str(<<>>), [t |-> "int", chars |-> <<>>]}

Url1 == "https://open.spotify.com/playlist/p1"
Url2 == "https://open.spotify.com/playlist/p2"
Observations ==
    {Obs("dict", Absent, u, "p1") : u \in {UrlsAbsent, UrlsNone, Urls("dict", Absent),
                                           Urls("dict", ""), Urls("dict", Url1)}}
    \cup {Obs("dict", Absent, Urls("dict", Url2), "p2"),
          Obs("dict", "Spotify API error: invalid id", UrlsAbsent, "p1"),
          Obs("dict", "Spotify API error: invalid id", Urls("dict", Url1), "p1"),
          Obs("dict", "", UrlsAbsent, "p1"),
          Obs("str", Absent, UrlsAbsent, "text")}
Steps == {Step(t, o) : t \in {"spotify_create_playlist", "spotify_search_tracks"}, o \in Observations}
StepLists(n) == UNION {[1..k -> Steps] : k \in 0..n}

Responses(n) ==
    {[output |-> "Done.", intermediate_steps |-> st] : st \in StepLists(n)}
    \cup {[intermediate_steps |-> st] : st \in StepLists(Min(n, 1))}
    \cup {[output |-> "Done."]}
ExecEnvs(n) ==
    {[invoke |-> "raise", response |-> EmptyDict]}
    \cup {[invoke |-> "ok", response |-> r] : r \in Responses(n)}

ProcessRequest ==
    /\ Idle
    /\ \E ui \in UserInputs, xenv \in ExecEnvs(MaxSteps) :
        LET r == SpotifyAgent_process_request(
                     [client |-> client, temperature |-> temperature], ui, xenv) IN
        /\ client' = r.agent.client
        /\ temperature' = r.agent.temperature
        /\ out' = [op |-> "process_request", pre |-> client, preTemperature |-> temperature,
                   args |-> ui, env |-> xenv, calls |-> r.calls, ret |-> r.ret,
                   raised |-> r.raised]
        /\ UNCHANGED serverVars

\* the caller takes the result of the call
Return ==
    /\ ~Idle
    /\ out' = OutInit
    /\ UNCHANGED <<client, temperature, serverVars>>

AgentInit ==
    /\ client = Client(FALSE, FALSE)
    /\ temperature = T_default
    /\ out = OutInit
    /\ session = EmptyDict
    /\ agent_instances = EmptyDict
    /\ next_id = 1
    /\ logged_out = {}
    /\ last = EmptyDict

AgentNext ==
    \/ Construct
    \/ SearchTracks
    \/ CreatePlaylist
    \/ GetAllPlaylistItems
    \/ RemoveTrackFromPlaylist
    \/ ControlPlayback
    \/ GetCurrentUserProfile
    \/ ProcessRequest
    \/ Return

AgentSpec == AgentInit /\ [][AgentNext]_vars

-----------------------------------------------------------------------------
(* The HTTP server (src/api/server.py).                                    *)
(*   session[s]       the server-side session of cookie s, a dict          *)
(*   agent_instances  the global dict agent_id -> SpotifyAgent             *)
(*   next_id          the next value secrets.token_hex(8) yields: every    *)
(*                    agent_id is one never issued before                  *)
(*   logged_out       history: the sessions that logged out and have had   *)
(*                    no successful /callback since                        *)
(*   last             the request being answered: endpoint, session, the   *)
(*                    session and agent table before it, the outbound      *)
(*                    calls of the handler, status and body of the answer  *)

Sessions == {"s1", "s2"}
OAuthStates == {"st1", "st2"}

\* the keyword arguments of the three SpotifyAgent(...) calls of server.py
CallbackKwargs == {"openai_api_key", "spotify_credentials"}
RecreateKwargs == {"openai_api_key", "spotify_credentials", "spotify_mcp_path"}

\* spotify_credentials built from config and a token dict
ServerCredentials(tokens) == Credentials(json_dumps(tokens))

\* the token dict get_status and process_request rebuild from the session
SessionTokens(sess) ==
    [access_token |-> sess["spotify_token"],
     refresh_token |-> Get(sess, "spotify_refresh_token", ""),
     expires_at |-> Get(sess, "spotify_token_expiry", 0)]

\* a call of the handler that is not a Spotify call: who is concerned
SCall(api, id) == [Call(api) EXCEPT !.offset = id]

Response(status, body) == [status |-> status, body |-> body]

Answer(ep, s, args, calls, resp) ==
    [ep |-> ep, sess |-> s, args |-> args, pre |-> session[s], preAgents |-> agent_instances,
     preLoggedOut |-> s \in logged_out, calls |-> calls, status |-> resp.status,
     body |-> resp.body]

NoExchange == [raised |-> TRUE, msg |-> "", tokens |-> EmptyDict]
NoArgs ==
    [state |-> NoneV, error |-> NoneV, code |-> NoneV, data |-> [t |-> "null", d |-> EmptyDict],
     exch |-> NoExchange]
LastInit ==
    [ep |-> "none", sess |-> "s1", args |-> NoArgs, pre |-> EmptyDict,
     preAgents |-> EmptyDict, preLoggedOut |-> FALSE, calls |-> <<>>, status |-> 0,
     body |-> EmptyDict]

\* no request is being answered
Quiet == last.ep = "none"

\* 'spotify_token' in session and 'agent_id' in session
is_authenticated(sess) == Has(sess, "spotify_token") /\ Has(sess, "agent_id")

\* as session_clear, dropping only the agent_id
session_clear_agent_id_only(sess) == [k \in DOMAIN sess \ {"agent_id"} |-> sess[k]]

\* session.clear()
session_clear(sess) == EmptyDict

get_status(s, aenv) ==
    LET sess == session[s] IN
    IF is_authenticated(sess)
    THEN LET agent_id == sess["agent_id"] IN
         IF agent_id \notin DOMAIN agent_instances
         THEN LET r == SpotifyAgent_init(RecreateKwargs,
                                         ServerCredentials(SessionTokens(sess)), aenv)
                  calls == <<SCall("SpotifyAgent", agent_id)>>
              IN IF r.raised
                 THEN \* except Exception: session.clear()
                      /\ session' = [session EXCEPT ![s] = session_clear(sess)]
                      /\ last' = Answer("status", s, NoArgs, calls,
                                        Response(200, [authenticated |-> FALSE]))
                      /\ UNCHANGED <<agent_instances, next_id, logged_out>>
                 ELSE /\ agent_instances' = Put(agent_instances, agent_id, r.agent)
                      /\ last' = Answer("status", s, NoArgs, calls,
                                        Response(200, [authenticated |-> TRUE]))
                      /\ UNCHANGED <<session, next_id, logged_out>>
         ELSE /\ last' = Answer("status", s, NoArgs, <<>>,
                                Response(200, [authenticated |-> TRUE]))
              /\ UNCHANGED <<session, agent_instances, next_id, logged_out>>
    ELSE /\ last' = Answer("status", s, NoArgs, <<>>, Response(200, [authenticated |-> FALSE]))
         /\ UNCHANGED <<session, agent_instances, next_id, logged_out>>

login(s, state) ==
    /\ session' = [session EXCEPT ![s] = Put(@, "oauth_state", state)]
    /\ last' = Answer("login", s, [NoArgs EXCEPT !.state = state], <<>>,
                      Response(200, [auth_url |-> "https://accounts.spotify.com/authorize",
                                     state |-> state]))
    /\ UNCHANGED <<agent_instances, next_id, logged_out>>

\* as callback_checks, with the error parameter looked at before the state
callback_checks_error_first(sess, args) ==
    IF Truthy(args.error)
    THEN Response(400, [error |-> args.error])
    ELSE IF args.state # Get(sess, "oauth_state", NoneV)
    THEN Response(400, [error |-> "State mismatch. Possible CSRF attack."])
    ELSE IF ~Truthy(args.code)
    THEN Response(400, [error |-> "No authorization code provided"])
    ELSE Response(0, EmptyDict)

\* the checks of /callback before the token exchange: the rejection, or
\* status 0 when the request goes on to the exchange
callback_checks(sess, args) ==
    IF args.state # Get(sess, "oauth_state", NoneV)
    THEN Response(400, [error |-> "State mismatch. Possible CSRF attack."])
    ELSE IF Truthy(args.error)
    THEN Response(400, [error |-> args.error])
    ELSE IF ~Truthy(args.code)
    THEN Response(400, [error |-> "No authorization code provided"])
    ELSE Response(0, EmptyDict)

\* if 'expires_in' in tokens and 'expires_at' not in tokens
with_expires_at(tokens, now) ==
    IF Has(tokens, "expires_in") /\ ~Has(tokens, "expires_at")
    THEN Put(tokens, "expires_at", now + tokens["expires_in"])
    ELSE tokens

\* as session_after_callback, without session['agent_id'] = agent_id
session_after_callback_no_agent_id(sess, tokens, agent_id) ==
    Put(Put(Put(sess,
        "spotify_token", tokens["access_token"]),
        "spotify_refresh_token", Get(tokens, "refresh_token", NoneV)),
        "spotify_token_expiry", Get(tokens, "expires_at", 0))

\* session['spotify_token'] = ... session['agent_id'] = agent_id
session_after_callback(sess, tokens, agent_id) ==
    Put(Put(Put(Put(sess,
        "spotify_token", tokens["access_token"]),
        "spotify_refresh_token", Get(tokens, "refresh_token", NoneV)),
        "spotify_token_expiry", Get(tokens, "expires_at", 0)),
        "agent_id", agent_id)

\* exch: the answer of the token endpoint, a RequestException or a dict
callback(s, args, exch, now, aenv) ==
    LET sess == session[s]
        chk == callback_checks(sess, args)
        post == <<SCall("requests.post", 0)>>
        sent == [args EXCEPT !.exch = exch]
    IN
    IF chk.status # 0
    THEN /\ last' = Answer("callback", s, args, <<>>, chk)
         /\ UNCHANGED <<session, agent_instances, next_id, logged_out>>
    ELSE IF exch.raised
    THEN /\ last' = Answer("callback", s, sent, post,
                           Response(400, [error |-> "Error exchanging authorization code: "
                                                     \o exch.msg]))
         /\ UNCHANGED <<session, agent_instances, next_id, logged_out>>
    ELSE LET tokens == with_expires_at(exch.tokens, now) IN
         IF ~Has(tokens, "access_token")
         THEN \* tokens['access_token'] raises KeyError, which nothing catches
              /\ last' = Answer("callback", s, sent, post,
                                Response(500, [error |-> "Internal Server Error"]))
              /\ UNCHANGED <<session, agent_instances, next_id, logged_out>>
         ELSE LET agent_id == next_id
                  sess1 == session_after_callback(sess, tokens, agent_id)
                  r == SpotifyAgent_init(CallbackKwargs, ServerCredentials(tokens), aenv)
              IN /\ session' = [session EXCEPT ![s] = sess1]
                 /\ next_id' = next_id + 1
                 /\ IF r.raised
                    THEN /\ last' = Answer("callback", s, sent,
                                           post \o <<SCall("SpotifyAgent", agent_id)>>,
                                           Response(500, [error |-> "Internal Server Error"]))
                         /\ UNCHANGED <<agent_instances, logged_out>>
                    ELSE /\ agent_instances' = Put(agent_instances, agent_id, r.agent)
                         /\ logged_out' = logged_out \ {s}
                         /\ last' = Answer("callback", s, sent,
                                           post \o <<SCall("SpotifyAgent", agent_id)>>,
                                           Response(302, [location |-> "index"]))

\* request.json: null, a dict, or another JSON value
Json(t, d) == [t |-> t, d |-> d]

\* as not_authenticated, with the check left out
not_authenticated_never(sess) == FALSE

\* 'agent_id' not in session or 'spotify_token' not in session
not_authenticated(sess) == ~Has(sess, "agent_id") \/ ~Has(sess, "spotify_token")

\* data: the JSON body; xenv: what the agent executor answers if invoked
process_request(s, data, aenv, xenv) ==
    LET sess == session[s] IN
    IF not_authenticated(sess)
    THEN /\ last' = Answer("request", s, [NoArgs EXCEPT !.data = data], <<>>,
                           Response(401, [error |-> "Not authenticated"]))
         /\ UNCHANGED <<session, agent_instances, next_id, logged_out>>
    ELSE IF ~Has(sess, "agent_id")
    THEN \* session['agent_id'] raises KeyError
         /\ last' = Answer("request", s, [NoArgs EXCEPT !.data = data], <<>>,
                           Response(500, [error |-> "Internal Server Error"]))
         /\ UNCHANGED <<session, agent_instances, next_id, logged_out>>
    ELSE LET agent_id == sess["agent_id"]
             missing == agent_id \notin DOMAIN agent_instances
             r == SpotifyAgent_init(RecreateKwargs,
                                    ServerCredentials(SessionTokens(sess)), aenv)
             made == IF missing THEN <<SCall("SpotifyAgent", agent_id)>> ELSE <<>>
             agents1 == IF missing /\ ~r.raised THEN Put(agent_instances, agent_id, r.agent)
                        ELSE agent_instances
         IN
         IF missing /\ r.raised
         THEN /\ last' = Answer("request", s, [NoArgs EXCEPT !.data = data], made,
                    Response(404, [error |-> "Agent not found and could not be recreated"]))
              /\ UNCHANGED <<session, agent_instances, next_id, logged_out>>
         ELSE IF data.t = "null" \/ (data.t = "dict" /\ DOMAIN data.d = {})
                 \/ (data.t = "dict" /\ ~Has(data.d, "request"))
         THEN /\ agent_instances' = agents1
              /\ last' = Answer("request", s, [NoArgs EXCEPT !.data = data], made,
                                Response(400, [error |-> "No request provided"]))
              /\ UNCHANGED <<session, next_id, logged_out>>
         ELSE IF data.t # "dict"
         THEN \* 'request' not in data raises TypeError outside the try
              /\ agent_instances' = agents1
              /\ last' = Answer("request", s, [NoArgs EXCEPT !.data = data], made,
                                Response(500, [error |-> "Internal Server Error"]))
              /\ UNCHANGED <<session, next_id, logged_out>>
         ELSE LET p == SpotifyAgent_process_request(agents1[agent_id], data.d["request"], xenv)
                  calls == made \o <<SCall("agent.process_request", agent_id)>> \o p.calls
              IN /\ agent_instances' = [agents1 EXCEPT ![agent_id] = p.agent]
                 /\ last' = Answer("request", s, [NoArgs EXCEPT !.data = data], calls,
                        IF p.raised
                        THEN Response(500, [error |-> "Error processing request: " \o p.exc])
                        ELSE Response(200, p.ret))
                 /\ UNCHANGED <<session, next_id, logged_out>>

logout(s) ==
    LET sess == session[s]
        stored == Has(sess, "agent_id") /\ sess["agent_id"] \in DOMAIN agent_instances
    IN /\ agent_instances' =
              IF stored
              THEN [k \in DOMAIN agent_instances \ {sess["agent_id"]} |-> agent_instances[k]]
              ELSE agent_instances
       /\ session' = [session EXCEPT ![s] = session_clear(sess)]
       /\ logged_out' = logged_out \cup {s}
       /\ last' = Answer("logout", s, NoArgs,
                         IF stored THEN <<SCall("cleanup", sess["agent_id"]),
                                          SCall("del", sess["agent_id"])>>
                         ELSE <<>>,
                         Response(200, [success |-> TRUE]))
       /\ UNCHANGED next_id

-----------------------------------------------------------------------------
(* The server as a state machine.  A request is answered in one step; the  *)
(* next one is taken up once the answer is sent.                           *)

Now == 1000

TokenAnswers ==
    {[raised |-> TRUE, msg |-> "400 Client Error", tokens |-> EmptyDict]}
    \cup {[raised |-> FALSE, msg |-> "", tokens |-> t] :
            t \in {[access_token |-> "at1", refresh_token |-> "rt1", expires_in |-> 3600],
                   [access_token |-> "at2", expires_in |-> 3600, expires_at |-> 9000],
                   [access_token |-> "at1"],
                   [refresh_token |-> "rt1", expires_in |-> 3600]}}

QueryValues(vs) == {NoneV, ""} \cup vs
CallbackArgs ==
    {[NoArgs EXCEPT !.state = st, !.error = er, !.code = co] :
        st \in QueryValues(OAuthStates), er \in QueryValues({"access_denied"}),
        co \in QueryValues({"c1"})}

ServerAuthEnvs == {[oauth |-> "ok", cached |-> "none"], [oauth |-> "ok", cached |-> "raise"]}
ServerInputs == {Str(<<"M","a","k","e"," ","a"," ","m","i","x">>), [t |-> "int", chars |-> <<>>]}
Bodies ==
    {Json("null", EmptyDict), Json("dict", EmptyDict), Json("dict", [text |-> "hi"]),
     Json("number", EmptyDict)}
    \cup {Json("dict", [request |-> ui]) : ui \in ServerInputs}
ServerExecEnvs ==
    {[invoke |-> "raise", response |-> EmptyDict]}
    \cup {[invoke |-> "ok", response |-> [output |-> "Done.", intermediate_steps |-> st]] :
            st \in {<<>>,
                    <<Step("spotify_create_playlist", Obs("dict", Absent, Urls("dict", Url1), "p1"))>>,
                    <<Step("spotify_create_playlist",
                           Obs("dict", "Spotify API error: invalid id", UrlsAbsent, "p1"))>>}}

Status ==
    /\ Quiet
    /\ \E s \in Sessions, aenv \in ServerAuthEnvs : get_status(s, aenv)
    /\ UNCHANGED agentVars

Login ==
    /\ Quiet
    /\ \E s \in Sessions, st \in OAuthStates : login(s, st)
    /\ UNCHANGED agentVars

\* the token endpoint and the new agent's authentication matter only to a
\* request that passes the checks
Callback ==
    /\ Quiet
    /\ next_id <= MaxAgentIds
    /\ \E s \in Sessions, args \in CallbackArgs :
          IF callback_checks(session[s], args).status # 0
          THEN callback(s, args, CHOOSE x \in TokenAnswers : x.raised, Now,
                        CHOOSE a \in ServerAuthEnvs : a.cached = "none")
          ELSE \E exch \in TokenAnswers, aenv \in ServerAuthEnvs :
                  callback(s, args, exch, Now, aenv)
    /\ UNCHANGED agentVars

Request ==
    /\ Quiet
    /\ \E s \in Sessions, data \in Bodies :
          IF is_authenticated(session[s]) /\ data.t = "dict" /\ Has(data.d, "request")
          THEN \E aenv \in ServerAuthEnvs, xenv \in ServerExecEnvs :
                  process_request(s, data, aenv, xenv)
          ELSE process_request(s, data, CHOOSE a \in ServerAuthEnvs : a.cached = "none",
                               CHOOSE x \in ServerExecEnvs : x.invoke = "raise")
    /\ UNCHANGED agentVars

Logout ==
    /\ Quiet
    /\ \E s \in Sessions : logout(s)
    /\ UNCHANGED agentVars

\* the process restarts: agent_instances = {} again, the session files stay
Restart ==
    /\ Quiet
    /\ agent_instances # EmptyDict
    /\ agent_instances' = EmptyDict
    /\ UNCHANGED <<session, next_id, logged_out, last, agentVars>>

\* the answer is sent
Respond ==
    /\ ~Quiet
    /\ last' = LastInit
    /\ UNCHANGED <<session, agent_instances, next_id, logged_out, agentVars>>

Init ==
    /\ session = [s \in Sessions |-> EmptyDict]
    /\ agent_instances = EmptyDict
    /\ next_id = 1
    /\ logged_out = {}
    /\ last = LastInit
    /\ client = Client(FALSE, FALSE)
    /\ temperature = T_default
    /\ out = OutInit

Next ==
    \/ Status
    \/ Login
    \/ Callback
    \/ Request
    \/ Logout
    \/ Restart
    \/ Respond

Spec == Init /\ [][Next]_vars

-----------------------------------------------------------------------------
(* Properties of the server, checked under Spec.  Each is a statement      *)
(* about the answer just given: last holds the request, the session and    *)
(* the agent table before it, and the state is the one the handler left.   *)

HasCall(calls, api) == \E i \in DOMAIN calls : calls[i].api = api

\* the agent ids held by the sessions other than s
OtherAgentIds(s) ==
    {session[t]["agent_id"] : t \in {u \in Sessions \ {s} : Has(session[u], "agent_id")}}

\* the request passes the checks of /callback
CallbackAccepted ==
    /\ last.ep = "callback"
    /\ last.args.state = Get(last.pre, "oauth_state", NoneV)
    /\ ~Truthy(last.args.error)
    /\ Truthy(last.args.code)

\* C1: after GET /callback with a state equal to the session's oauth_state,
\* no error, a code and a successful token exchange (the endpoint answers a
\* dict with an access_token), the handler answers with the redirect, the
\* session holds spotify_token (the returned access_token),
\* spotify_refresh_token, spotify_token_expiry and an agent_id that no
\* session and no stored agent had before, and agent_instances holds an
\* agent under exactly that id.
C1_CallbackStoresTokensAndAgent ==
    (/\ CallbackAccepted
     /\ ~last.args.exch.raised
     /\ Has(last.args.exch.tokens, "access_token")) =>
        LET sess == session[last.sess]
            tokens == last.args.exch.tokens
        IN
        /\ last.status = 302
        /\ HasCall(last.calls, "requests.post")
        /\ {"spotify_token", "spotify_refresh_token", "spotify_token_expiry", "agent_id"}
               \subseteq DOMAIN sess
        /\ sess["spotify_token"] = tokens["access_token"]
        /\ sess["spotify_refresh_token"] = Get(tokens, "refresh_token", NoneV)
        /\ sess["spotify_token_expiry"] =
              IF Has(tokens, "expires_at") THEN tokens["expires_at"]
              ELSE IF Has(tokens, "expires_in") THEN Now + tokens["expires_in"]
              ELSE 0
        /\ sess["agent_id"] \notin DOMAIN last.preAgents
        /\ sess["agent_id"] \notin OtherAgentIds(last.sess)
        /\ (Has(last.pre, "agent_id") => sess["agent_id"] # last.pre["agent_id"])
        /\ sess["agent_id"] \in DOMAIN agent_instances
        /\ DOMAIN agent_instances = DOMAIN last.preAgents \cup {sess["agent_id"]}

C1_Witness ==
    /\ CallbackAccepted /\ last.status = 302
    /\ Has(last.pre, "agent_id")
    /\ session[last.sess]["spotify_token"] = "at2"

\* C2: GET /callback answers 400 "State mismatch", performs no token
\* exchange and leaves the session and agent_instances as they were whenever
\* the state parameter differs from the session's oauth_state, whatever the
\* error and code parameters are; a request with a non-empty error parameter
\* or without a non-empty code is answered 400 with no token exchange.
C2_CallbackRejects ==
    last.ep = "callback" =>
        /\ last.args.state # Get(last.pre, "oauth_state", NoneV) =>
              /\ last.status = 400
              /\ last.body = [error |-> "State mismatch. Possible CSRF attack."]
              /\ last.calls = <<>>
              /\ session[last.sess] = last.pre
              /\ agent_instances = last.preAgents
        /\ (Truthy(last.args.error) \/ ~Truthy(last.args.code)) =>
              /\ last.status = 400
              /\ ~HasCall(last.calls, "requests.post")

C2_Witness ==
    /\ last.ep = "callback"
    /\ Has(last.pre, "oauth_state")
    /\ last.args.state \in OAuthStates
    /\ last.args.state # last.pre["oauth_state"]
    /\ Truthy(last.args.error)
    /\ Truthy(last.args.code)
    /\ last.status = 400

\* C3: POST /api/request answers 401 "Not authenticated", constructs no
\* agent and invokes none whenever the session lacks agent_id or lacks
\* spotify_token, whatever the body is.
C3_RequestNeedsAuthentication ==
    (last.ep = "request" /\ (~Has(last.pre, "agent_id") \/ ~Has(last.pre, "spotify_token"))) =>
        /\ last.status = 401
        /\ last.body = [error |-> "Not authenticated"]
        /\ last.calls = <<>>
        /\ agent_instances = last.preAgents
        /\ session[last.sess] = last.pre

C3_Witness ==
    /\ last.ep = "request"
    /\ last.status = 401
    /\ last.args.data.t = "dict" /\ Has(last.args.data.d, "request")
    /\ agent_instances # EmptyDict

\* the session is authenticated but its agent is not in agent_instances
AgentMissing ==
    /\ last.ep \in {"status", "request"}
    /\ Has(last.pre, "spotify_token") /\ Has(last.pre, "agent_id")
    /\ last.pre["agent_id"] \notin DOMAIN last.preAgents

\* C4: when the session holds spotify_token and agent_id but agent_instances
\* has no entry for that agent_id, /api/status and /api/request store a new
\* agent under the same agent_id; /api/status answers authenticated: true
\* and /api/request does not answer 404 but goes on with the request.
C4_MissingAgentIsRecreated ==
    AgentMissing =>
        /\ session[last.sess] = last.pre
        /\ last.pre["agent_id"] \in DOMAIN agent_instances
        /\ last.ep = "status" => last.body = [authenticated |-> TRUE]
        /\ last.ep = "request" => last.status # 404

\* C5: GET /api/logout calls cleanup on the agent stored under the
\* session's agent_id and then removes it (if there is one), empties the
\* session and answers success: true; from then on, until a /callback in
\* that session is answered with the redirect, /api/status answers
\* authenticated: false and /api/request answers 401.
C5_Logout ==
    /\ last.ep = "logout" =>
          /\ last.status = 200 /\ last.body = [success |-> TRUE]
          /\ session[last.sess] = EmptyDict
          /\ last.sess \in logged_out
          /\ IF Has(last.pre, "agent_id") /\ last.pre["agent_id"] \in DOMAIN last.preAgents
             THEN /\ Apis(last.calls) = <<"cleanup", "del">>
                  /\ \A i \in DOMAIN last.calls : last.calls[i].offset = last.pre["agent_id"]
                  /\ DOMAIN agent_instances = DOMAIN last.preAgents \ {last.pre["agent_id"]}
             ELSE /\ last.calls = <<>>
                  /\ agent_instances = last.preAgents
    /\ (last.preLoggedOut /\ last.ep = "status") => last.body = [authenticated |-> FALSE]
    /\ (last.preLoggedOut /\ last.ep = "request") => last.status = 401
    /\ \A s \in logged_out : ~Has(session[s], "spotify_token") /\ ~Has(session[s], "agent_id")

C5_Witness ==
    /\ last.preLoggedOut
    /\ last.ep = "request"
    /\ Has(last.pre, "oauth_state")
    /\ last.status = 401
    /\ agent_instances # EmptyDict

\* POST /api/request arrived in an authenticated session whose agent exists
RequestWithAgent ==
    /\ last.ep = "request"
    /\ is_authenticated(last.pre)
    /\ last.pre["agent_id"] \in DOMAIN last.preAgents

\* the JSON body is missing or has no 'request' key
NoRequestKey(data) == ~(data.t = "dict" /\ Has(data.d, "request"))

\* what the agent of the session answers to the 'request' value, for some
\* answer of its executor
AnswersAsAgent ==
    \E xenv \in ServerExecEnvs :
        LET agent_id == last.pre["agent_id"]
            p == SpotifyAgent_process_request(last.preAgents[agent_id],
                                              last.args.data.d["request"], xenv)
        IN /\ agent_instances = [last.preAgents EXCEPT ![agent_id] = p.agent]
           /\ SelectSeq(last.calls, LAMBDA c : c.api \notin {"agent.process_request"}) = p.calls
           /\ IF p.raised
              THEN /\ last.status = 500
                   /\ last.body = [error |-> "Error processing request: " \o p.exc]
              ELSE /\ last.status = 200
                   /\ last.body = p.ret

\* C12: POST /api/request in an authenticated session whose agent exists
\* answers 400 'No request provided' without invoking the agent when the
\* JSON body is missing or has no 'request' key; otherwise it invokes that
\* agent's process_request once with the 'request' value and answers with
\* its result, or with a 500 error response if it raises.
C12_RequestBody ==
    RequestWithAgent =>
        /\ session[last.sess] = last.pre
        /\ IF NoRequestKey(last.args.data)
           THEN /\ last.status = 400
                /\ last.body = [error |-> "No request provided"]
                /\ last.calls = <<>>
                /\ agent_instances = last.preAgents
           ELSE /\ Len(SelectSeq(last.calls, LAMBDA c : c.api = "agent.process_request")) = 1
                /\ last.calls[1] = SCall("agent.process_request", last.pre["agent_id"])
                /\ AnswersAsAgent

\* C12 holds of every body that is null or a JSON object
C12_HoldsForObjectBodies ==
    (RequestWithAgent /\ last.args.data.t \in {"null", "dict"}) => C12_RequestBody

\* GET /callback arrived in a session that holds no oauth_state
CallbackWithoutIssuedState ==
    /\ last.ep = "callback"
    /\ ~Has(last.pre, "oauth_state")

\* C13: GET /callback goes on to the token exchange only in a session in
\* which /api/login stored a state: a callback in a session without
\* oauth_state, whether or not it carries a state parameter, is answered
\* 400, no token request is sent and nothing is stored.
C13_CallbackNeedsIssuedState ==
    CallbackWithoutIssuedState =>
        /\ last.status = 400
        /\ ~HasCall(last.calls, "requests.post")
        /\ session[last.sess] = last.pre
        /\ agent_instances = last.preAgents

\* C13 holds of every callback that carries a state parameter
C13_HoldsWhenStateIsSent ==
    (CallbackWithoutIssuedState /\ last.args.state # NoneV) => C13_CallbackNeedsIssuedState

-----------------------------------------------------------------------------
(* Properties of the agent layer, checked under AgentSpec.  Each is a      *)
(* statement about the call just made: out holds the client before it, its *)
(* arguments, the environment, the outbound calls and the value returned.  *)

ClientOps ==
    {"search_tracks", "create_playlist", "control_playback", "get_current_user_profile",
     "get_all_playlist_items", "remove_track_from_playlist"}

DataCalls(calls) == SelectSeq(calls, IsDataCall)

\* a Spotify API call of the operation raised: the last one issued
ApiRaised ==
    /\ out.env.failAt >= 1
    /\ Len(DataCalls(out.calls)) = out.env.failAt

\* the client had no handle and could not obtain one
NoHandle ==
    /\ ~out.pre.sp
    /\ (~out.pre.sp_oauth \/ out.env.reauth # "token")

KnownActions == {W_play, W_pause, W_next, W_previous}

\* the wrapper itself refuses: unknown action, or nothing to play on
WrapperRefuses ==
    /\ out.op = "control_playback"
    /\ \/ lower(out.args.action) \notin KnownActions
       \/ /\ lower(out.args.action) = W_play
          /\ out.env.devices = <<>>

\* C6: no SpotifyClient operation lets an exception of a Spotify API call
\* escape: whenever a call raises, the operation returns a dict whose
\* 'error' is a string; and when no call raises, the client is
\* authenticated and the wrapper does not itself refuse the request, the
\* dict returned has no 'error'.
C6_ClientOperationsReturnErrors ==
    out.op \in ClientOps =>
        /\ ~out.raised
        /\ ApiRaised => (Has(out.ret, "error") /\ out.ret["error"] \in STRING)
        /\ (~ApiRaised /\ ~NoHandle /\ ~WrapperRefuses) => ~Has(out.ret, "error")
        /\ (~ApiRaised /\ (NoHandle \/ WrapperRefuses)) =>
              (Has(out.ret, "error") /\ out.ret["error"] \in STRING)

C6_Witness ==
    /\ out.op = "create_playlist"
    /\ ApiRaised
    /\ out.env.exc.t = "Exception"
    /\ Len(out.calls) = 4
    /\ out.calls[4].api = "playlist_add_items"
    /\ out.ret = [error |-> "Connection timed out"]

\* C7: a client without a handle whose _ensure_client cannot obtain one (no
\* OAuth manager, no token, or an exception) answers
\* {'error': 'Not authenticated with Spotify'} to every operation, issues no
\* data or playback call and stays without a handle; a client with a handle
\* never touches the OAuth manager; a re-authentication that yields a token
\* installs the handle (so that the next call is one by a client with a
\* handle).
C7_EnsureClient ==
    out.op \in ClientOps =>
        /\ NoHandle =>
              /\ Has(out.ret, "error")
              /\ out.ret["error"] = "Not authenticated with Spotify"
              /\ DOMAIN out.ret = {"error"}
              /\ DataCalls(out.calls) = <<>>
              /\ client = out.pre
        /\ out.pre.sp =>
              /\ \A i \in DOMAIN out.calls : out.calls[i].api \notin OAuthApis
              /\ client = out.pre
        /\ (~out.pre.sp /\ out.pre.sp_oauth /\ out.env.reauth = "token") =>
              /\ client.sp
              /\ out.calls # <<>> /\ out.calls[1].api = "get_access_token"
              /\ Len(DataCalls(out.calls)) = Len(out.calls) - 1

C7_Witness ==
    /\ out.op = "control_playback"
    /\ ~out.pre.sp /\ out.pre.sp_oauth
    /\ out.env.reauth = "raise"
    /\ lower(out.args.action) = W_play
    /\ out.env.devices # <<>>
    /\ out.ret = NotAuthenticated

\* the executor was invoked and answered
ExecutorAnswered ==
    /\ out.op = "process_request"
    /\ out.pre.sp
    /\ out.args.t = "str"
    /\ out.env.invoke = "ok"

StepsOf(response) == Get(response, "intermediate_steps", <<>>)

\* a spotify_create_playlist step whose observation is a dict with no error
\* and a non-empty external_urls.spotify
Qualifies(step) ==
    /\ step.tool = "spotify_create_playlist"
    /\ step.obs.kind = "dict"
    /\ ~Truthy(step.obs.error)
    /\ step.obs.external_urls.t = "dict"
    /\ Truthy(step.obs.external_urls.spotify)

LastQualifying(steps) ==
    LET q == {i \in DOMAIN steps : Qualifies(steps[i])} IN
    steps[CHOOSE i \in q : \A j \in q : j <= i]

IsPlaylistSuccess(ret) ==
    /\ Has(ret, "success") /\ ret["success"]
    /\ Has(ret, "type") /\ ret["type"] = "playlist"

\* C8: SpotifyAgent.process_request returns success: true with type
\* 'playlist' if and only if the intermediate steps contain a qualifying
\* spotify_create_playlist step; the playlist details then come from the
\* last such step and raw_output is the final text of the executor.
C8_PlaylistIffQualifyingStep ==
    ExecutorAnswered =>
        LET steps == StepsOf(out.env.response)
            some == \E i \in DOMAIN steps : Qualifies(steps[i])
        IN /\ IsPlaylistSuccess(out.ret) <=> some
           /\ some =>
                 LET o == LastQualifying(steps).obs IN
                 /\ out.ret["playlist"] =
                       [name |-> o.name, description |-> o.description,
                        url |-> o.external_urls.spotify, track_count |-> o.total,
                        cover_image_url |-> o.cover_image_url,
                        tracks_preview |-> o.tracks_preview, id |-> o.id]
                 /\ out.ret["raw_output"] = Get(out.env.response, "output", "Task completed.")

\* a spotify_create_playlist observation without error whose external_urls is null
NullUrls(step) ==
    /\ step.tool = "spotify_create_playlist"
    /\ step.obs.kind = "dict"
    /\ ~Truthy(step.obs.error)
    /\ step.obs.external_urls.t = "none"

\* C8 holds of every run in which no created playlist comes without external_urls
C8_HoldsWithoutNullUrls ==
    (ExecutorAnswered /\ \A i \in DOMAIN StepsOf(out.env.response) :
                             ~NullUrls(StepsOf(out.env.response)[i]))
        => C8_PlaylistIffQualifyingStep

\* the try block of process_request raises
TryRaises ==
    \/ out.args.t # "str"
    \/ out.env.invoke = "raise"
    \/ \E i \in DOMAIN StepsOf(out.env.response) : NullUrls(StepsOf(out.env.response)[i])

UnexpectedErrors ==
    {"Unexpected agent error: " \o m :
        m \in {"object has no attribute 'lower'", "executor failed",
               "'NoneType' object has no attribute 'get'"}}

\* the credentials carry a token _authenticate can use
UsableToken(credentials) ==
    /\ Has(credentials, "token")
    /\ credentials["token"].json = "object"
    /\ Has(credentials["token"].value, "access_token")

\* Spotify authentication fails in the constructor
AuthenticationFails(credentials, aenv) ==
    \/ ~(CredentialKeys \subseteq DOMAIN credentials)
    \/ aenv.oauth = "raise"
    \/ aenv.cached = "raise"
    \/ aenv.cached = "none" /\ ~UsableToken(credentials)

\* C9: SpotifyAgent.process_request never raises.  Without a Spotify handle
\* it returns {success: false, error: 'Spotify client not authenticated.'},
\* does not invoke the executor and leaves the temperature alone; an
\* exception while invoking the executor or processing its steps comes back
\* as {success: false, error: 'Unexpected agent error: ...'}.  Constructing
\* a SpotifyAgent whose Spotify authentication fails does not raise; it
\* leaves the handle unset.
C9_ProcessRequestNeverRaises ==
    /\ out.op = "process_request" =>
          /\ ~out.raised
          /\ ~out.pre.sp =>
                /\ out.ret = [success |-> FALSE, error |-> "Spotify client not authenticated."]
                /\ out.calls = <<>>
                /\ temperature = out.preTemperature
          /\ (out.pre.sp /\ TryRaises) =>
                /\ DOMAIN out.ret = {"success", "error"}
                /\ out.ret["success"] = FALSE
                /\ out.ret["error"] \in UnexpectedErrors
    /\ out.op = "SpotifyAgent" =>
          /\ ~out.raised
          /\ client.sp <=> ~AuthenticationFails(out.args, out.env)

C9_Witness ==
    /\ out.op = "process_request"
    /\ out.pre.sp
    /\ out.env.invoke = "ok"
    /\ out.args.t = "str"
    /\ out.ret = [success |-> FALSE,
                  error |-> "Unexpected agent error: 'NoneType' object has no attribute 'get'"]

\* control_playback was asked to play by a client with a handle
Playing ==
    /\ out.op = "control_playback"
    /\ ~NoHandle
    /\ lower(out.args.action) = W_play

CallsOf(api) == SelectSeq(out.calls, LAMBDA c : c.api = api)
PositionOf(api) == CHOOSE i \in DOMAIN out.calls : out.calls[i].api = api

\* C10: control_playback 'play' is transport-aware.  If some device is
\* active, start_playback goes to the first active device and
\* transfer_playback is never called; if none is active and the list is not
\* empty, transfer_playback to the first listed device comes before
\* start_playback on that device; if the list is empty the answer is
\* {'error': 'No available Spotify devices found.'} with neither call.
\* start_playback gets the context_uri exactly when it is non-empty.
\* (A call is issued unless an earlier call of the operation raised.)
C10_TransportAwarePlay ==
    Playing =>
        LET devices == out.env.devices
            fa == FirstActive(devices)
            devicesOk == out.env.failAt # 1
            transfers == CallsOf("transfer_playback")
            starts == CallsOf("start_playback")
        IN
        /\ out.calls # <<>> /\ DataCalls(out.calls)[1].api = "devices"
        /\ Len(transfers) <= 1 /\ Len(starts) <= 1
        /\ fa # 0 =>
              /\ transfers = <<>>
              /\ devicesOk => (Len(starts) = 1 /\ starts[1].device_id = devices[fa].id)
        /\ (fa = 0 /\ devices # <<>>) =>
              /\ devicesOk => (Len(transfers) = 1 /\ transfers[1].device_id = devices[1].id)
              /\ (devicesOk /\ out.env.failAt # 2) =>
                    /\ Len(starts) = 1 /\ starts[1].device_id = devices[1].id
                    /\ PositionOf("transfer_playback") < PositionOf("start_playback")
        /\ devices = <<>> =>
              /\ devicesOk => out.ret = [error |-> "No available Spotify devices found."]
              /\ transfers = <<>> /\ starts = <<>>
        /\ \A i \in DOMAIN starts :
              starts[i].context_uri =
                  IF Truthy(out.args.context_uri) THEN out.args.context_uri ELSE Absent

\* C10 holds of every device list whose active devices have an id
C10_HoldsWhenActiveDevicesHaveIds ==
    (Playing /\ \A i \in DOMAIN out.env.devices :
                    out.env.devices[i].is_active => Truthy(out.env.devices[i].id))
        => C10_TransportAwarePlay

\* get_all_playlist_items was called by a client with a handle
Fetching ==
    /\ out.op = "get_all_playlist_items"
    /\ ~NoHandle

\* the tracks of a page's items that have a URI, in the page's order
WithUri(items) ==
    LET kept == SelectSeq(items, LAMBDA it : it.kind = "track")
    IN [i \in DOMAIN kept |-> Track(kept[i])]

\* the tracks with a URI of pages 1..k, page after page
RECURSIVE TracksUpTo(_, _)
TracksUpTo(pages, k) ==
    IF k = 0 THEN <<>> ELSE TracksUpTo(pages, k - 1) \o WithUri(pages[k].items)

\* every page that was requested exists, is valid, and its request did not raise
RequestedPagesValid ==
    /\ ~ApiRaised
    /\ \A i \in DOMAIN CallsOf("playlist_items") :
          i <= Len(out.env.pages) /\ out.env.pages[i].valid

\* C11: get_all_playlist_items requests pages of 100 at offsets 0, 100,
\* 200, ...; when every requested page is valid, the last page requested is
\* the first one without a 'next' link, and 'tracks' is exactly the tracks
\* that have a URI of the pages up to and including that one, in page
\* order, none duplicated and none skipped.
C11_FetchesAllPages ==
    Fetching =>
        LET reqs == CallsOf("playlist_items")
            pages == out.env.pages
            k == Len(reqs)
        IN
        /\ k >= 1 /\ DataCalls(out.calls) = reqs
        /\ \A i \in DOMAIN reqs :
              reqs[i].offset = (i - 1) * 100 /\ reqs[i].limit = 100
        /\ RequestedPagesValid =>
              /\ ~out.raised
              /\ DOMAIN out.ret = {"tracks"}
              /\ ~pages[k].next
              /\ \A i \in 1..(k - 1) : pages[i].next
              /\ out.ret["tracks"] = TracksUpTo(pages, k)

\* three pages are fetched; tracks without a URI and null tracks are left
\* out and a track that is on two pages is returned twice
C11_Witness ==
    /\ Fetching /\ RequestedPagesValid
    /\ Len(CallsOf("playlist_items")) = 3
    /\ CallsOf("playlist_items")[3].offset = 200
    /\ out.env.pages[1].items = <<Item("track", 2), Item("nouri", 1), Item("track", 1)>>
    /\ out.env.pages[2].items = <<Item("null", 0), Item("track", 2)>>
    /\ out.env.pages[3].items = <<Item("track", 1)>>
    /\ Len(out.ret["tracks"]) = 4

\* create_playlist was called by a client with a handle
Creating ==
    /\ out.op = "create_playlist"
    /\ ~NoHandle

\* the arguments of the first k calls of a sequence of calls, concatenated
RECURSIVE ItemsUpTo(_, _)
ItemsUpTo(calls, k) ==
    IF k = 0 THEN <<>> ELSE ItemsUpTo(calls, k - 1) \o calls[k].items

\* ceil(n / 100)
Batches(n) == (n + 99) \div 100

\* C14: create_playlist creates a private playlist and then adds the track
\* URIs in consecutive batches of at most 100, in input order: the
\* playlist_add_items calls follow user_playlist_create, their concatenated
\* arguments are the input list (ceil(n/100) calls for n URIs, none for an
\* empty list), and the playlist details and the 5-item preview are fetched
\* only after all batches were added.  (A call is issued unless an earlier
\* call of the operation raised.)
C14_AddsTracksInBatches ==
    Creating =>
        LET data == DataCalls(out.calls)
            adds == CallsOf("playlist_add_items")
            uris == out.args.track_uris
            n == Len(uris)
            added == ItemsUpTo(adds, Len(adds))
        IN
        /\ Len(data) >= 1 /\ data[1].api = "current_user"
        /\ Len(data) >= 2 => (data[2].api = "user_playlist_create" /\ data[2].public = "False")
        /\ \A i \in DOMAIN data :
              /\ data[i].api = "playlist_add_items" <=> (i > 2 /\ i <= 2 + Batches(n))
              /\ data[i].api = "playlist" <=> i = Batches(n) + 3
              /\ data[i].api = "playlist_items" <=> i = Batches(n) + 4
              /\ data[i].api = "playlist_items" => data[i].limit = 5
        /\ \A i \in DOMAIN adds :
              /\ Len(adds[i].items) \in 1..100
              /\ i < Len(adds) => Len(adds[i].items) = 100
        /\ Len(added) <= n /\ added = SubSeq(uris, 1, Len(added))
        /\ CallsOf("playlist") # <<>> => added = uris
        /\ ~ApiRaised =>
              /\ Len(adds) = Batches(n)
              /\ added = uris
              /\ Len(data) = Batches(n) + 4
              /\ ~Has(out.ret, "error")

\* more than 200 URIs go out as two batches of 100 and the rest before the details are read
C14_Witness ==
    /\ Creating /\ ~ApiRaised
    /\ Len(out.args.track_uris) > 200
    /\ Len(CallsOf("playlist_add_items")) = 3
    /\ Len(CallsOf("playlist_add_items")[2].items) = 100
    /\ CallsOf("playlist_add_items")[3].items =
          SubSeq(out.args.track_uris, 201, Len(out.args.track_uris))
    /\ DataCalls(out.calls)[6].api = "playlist"
    /\ Has(out.ret, "tracks_preview")

====
